---- MODULE Spec2Model ----
(***************************************************************************)
(* A model of the request orchestration layer of the image tools:          *)
(*   - callImageModelWithRetry (src/services/geminiService.ts), the        *)
(*     retrying transport around ai.models.generateContent;                *)
(*   - processGeminiResponse and the nine exported transformation          *)
(*     functions of the same file, from the check of their arguments to    *)
(*     the settlement of their promise;                                    *)
(*   - ProfilePictureGenerator (src/components/ProfilePictureGenerator.tsx)*)
(*     and the buttons PolaroidCard renders, the fan-out of five styled    *)
(*     variants over three workers, with regenerate-one and start-over.    *)
(*                                                                         *)
(* JavaScript runs the handlers on one thread: an action is one            *)
(* synchronous run of a handler or of the continuation of an await, up to  *)
(* the next await.                                                         *)
(***************************************************************************)
EXTENDS Integers, Sequences, FiniteSets, Bags, TLC

(***************************************************************************)
(* Program constants.                                                      *)
(***************************************************************************)
maxRetries_OneMore == 3 + 1

maxRetries == 3

initialDelay == 1000

concurrencyLimit_Two == 3 - 1

concurrencyLimit == 3

(***************************************************************************)
(* Bounds of the model.                                                    *)
(***************************************************************************)
\* handleGenerate is invoked at most this many times in one behaviour.
MaxInvocations == 2

\* handleRegenerate is invoked at most this many times in one behaviour.
MaxRegenerations == 1

\* A candidate of a response has at most this many parts.
MaxParts == 3

\* generateStyledImage is given at most this many images.
MaxImages == 2

None == "none"

VARIABLES
    \* ---- callImageModelWithRetry: one invocation ----
    rPc,            \* "idle" | "awaiting" | "backoff" | "returned" | "thrown"
    attempt,        \* the loop variable `attempt`
    calls,          \* number of generateContent calls made by this invocation
    timer,          \* the delay of the pending setTimeout, 0 when none is pending
    waits,          \* the delays waited so far, in order
    errorLog,       \* the errors caught so far, in order (console.error, line 56)
    outcome,        \* what the invocation returned or threw, None until then
    sent,           \* the `parts` of each generateContent call made, in order
    \* ---- ProfilePictureGenerator: React state ----
    view,
    uploadedImage,
    generatedImages,
    isLoading,
    gender,
    \* ---- ProfilePictureGenerator: handlers in progress ----
    reading,        \* files a FileReader is still reading
    hgPc,           \* handleGenerate: "idle" | "resizing" | "running" | "done"
    hgImage,        \* the uploadedImage handleGenerate captured
    hgGender,       \* the gender handleGenerate captured
    queue,          \* the shared queue of prompt items
    workers,        \* the three worker coroutines
    regens,         \* bag of handleRegenerate calls in progress
    \* ---- history ----
    invocation,     \* number of handleGenerate invocations so far
    invKeys,        \* the status-map keys each invocation installed
    regenerations,  \* number of handleRegenerate invocations so far
    takers,         \* per prompt id: how many workers of the latest batch
                    \* shifted it off the queue
    \* ---- environment ----
    failing,        \* the jobs whose operation fails (used by SpecBatch only)
    \* ---- TimeMachine: React state ----
    tmView,
    tmUploadedImage,
    tmGeneratedImage,
    tmIsLoading,
    tmError,
    \* ---- TimeMachine: handlers in progress ----
    tmReading,      \* files a FileReader is still reading
    tmPc,           \* handleGenerate: "idle" | "awaiting" (generateStyledImage)
    tmOpImage,      \* the uploadedImage the awaited operation was given
    \* ---- geminiService.ts: the module ----
    apiKey,         \* process.env.API_KEY
    modulePc,       \* "unloaded" | "loaded" | "failed" (the top-level code threw)
    \* ---- processGeminiResponse: one application ----
    givenResponse,  \* the GenerateContentResponse it is given: `response`
    resolved,       \* what it returned or threw, NotResolved until then
    \* ---- a transformation operation of geminiService: one invocation ----
    opPc,           \* "idle" | "marking" | "requesting" | "succeeded" | "failed"
    opName,         \* the exported function invoked
    opImages,       \* its image data URL arguments, in order
    opCount,        \* `count` of generatePhotoBoothImage, 0 for the others
    opInstructions, \* `additionalInstructions`
    marker,         \* how drawMarkerOnImage settled, None until then
    request,        \* allParts as passed to callImageModelWithRetry
    opImage,        \* the data URL the promise fulfilled with, NoImage until then
    opError         \* the Error the promise rejected with, NoError until then

retryVars == <<rPc, attempt, calls, timer, waits, errorLog, outcome, sent>>

uiVars == <<view, uploadedImage, generatedImages, isLoading, gender>>

runVars == <<reading, hgPc, hgImage, hgGender, queue, workers, regens>>

histVars == <<invocation, invKeys, regenerations, takers>>

fanVars == <<uiVars, runVars, histVars, failing>>

resolverVars == <<givenResponse, resolved>>

opVars == <<opPc, opName, opImages, opCount, opInstructions, marker, request,
            opImage, opError>>

moduleVars == <<apiKey, modulePc>>

svcVars == <<moduleVars, resolverVars, opVars>>

tmVars == <<tmView, tmUploadedImage, tmGeneratedImage, tmIsLoading, tmError,
            tmReading, tmPc, tmOpImage>>

vars == <<retryVars, fanVars, svcVars, tmVars>>

(***************************************************************************)
(* Strings.  A string is a sequence of tokens; concatenation is \o.        *)
(***************************************************************************)
\* An optional string: undefined, or a string.
Undefined == [defined |-> FALSE, text |-> <<>>]

Str(text) == [defined |-> TRUE, text |-> text]

\* JavaScript truthiness of an optional string: undefined and '' are falsy.
Truthy(s) == s.defined /\ s.text /= <<>>

IsWhitespace(token) == token \in { " ", "\n", "\t" }

\* String.prototype.trim
Trim(text) ==
    LET keep == { i \in 1..Len(text) : ~IsWhitespace(text[i]) }
    IN  IF keep = {} THEN <<>>
        ELSE SubSeq(text, CHOOSE i \in keep : \A j \in keep : i <= j,
                          CHOOSE i \in keep : \A j \in keep : i >= j)

\* The tokens \w+ matches: runs of letters, digits and underscores.
WordTokens == { "png", "jpeg", "webp", "svg", "xml", "plain", "abc",
                "iVBORw0KGgo", "PHN2Zz48L3N2Zz4", "MARKED", "RESULT", "SECOND" }

\* imageDataUrl.match(/^data:(image\/\w+);base64,(.*)$/): the two groups, or
\* no match.  \w+ stops at the first token that is not a word, which has to be
\* ';base64,'; '.' matches no line terminator and '$' only the end.
NoMatch == [matched |-> FALSE, mimeType |-> <<>>, data |-> <<>>]

\* The match with only the subtype captured in the first group.
MatchDataUrl_SubtypeOnly(url) ==
    LET ends == { k \in 3..(Len(url) - 1) :
                    /\ \A i \in 3..k : url[i] \in WordTokens
                    /\ url[k + 1] = ";base64,"
                    /\ \A i \in (k + 2)..Len(url) : url[i] /= "\n" }
    IN  IF Len(url) >= 4 /\ url[1] = "data:" /\ url[2] = "image/" /\ ends /= {}
          THEN LET k == CHOOSE e \in ends : TRUE
               IN  [matched |-> TRUE, mimeType |-> SubSeq(url, 3, k),
                    data |-> SubSeq(url, k + 2, Len(url))]
          ELSE NoMatch

MatchDataUrl(url) ==
    LET ends == { k \in 3..(Len(url) - 1) :
                    /\ \A i \in 3..k : url[i] \in WordTokens
                    /\ url[k + 1] = ";base64,"
                    /\ \A i \in (k + 2)..Len(url) : url[i] /= "\n" }
    IN  IF Len(url) >= 4 /\ url[1] = "data:" /\ url[2] = "image/" /\ ends /= {}
          THEN LET k == CHOOSE e \in ends : TRUE
               IN  [matched |-> TRUE, mimeType |-> SubSeq(url, 2, k),
                    data |-> SubSeq(url, k + 2, Len(url))]
          ELSE NoMatch

\* `data:${mimeType};base64,${data}`
DataUrl(mimeType, data) == <<"data:">> \o mimeType \o <<";base64,">> \o data

(***************************************************************************)
(* Parts and responses of the @google/genai SDK.                           *)
(***************************************************************************)
\* A Part with inlineData { mimeType, data }.
ImagePart(mimeType, data) ==
    [hasInlineData |-> TRUE, mimeType |-> mimeType, data |-> data, text |-> <<>>]

\* A Part with text.
TextPart(text) ==
    [hasInlineData |-> FALSE, mimeType |-> <<>>, data |-> <<>>, text |-> text]

\* The parts a response of the model is made of.
ResponseParts ==
    { TextPart(<<"Sorry, I cannot edit this image.">>),
      ImagePart(<<"image/", "png">>, <<"RESULT">>),
      ImagePart(<<"image/", "jpeg">>, <<"SECOND">>) }

\* The values of response.text.
ResponseTexts == { Undefined, Str(<<>>), Str(<<"Sorry, I cannot edit this image.">>) }

\* The parts of one candidate's content: at most MaxParts of them.
PartLists == UNION { [1..n -> ResponseParts] : n \in 0..MaxParts }

\* response.candidates: none (the field is undefined or empty), one candidate,
\* or a first candidate followed by one of at most one part.
CandidateLists ==
    { <<>> }
    \cup { << [parts |-> ps] >> : ps \in PartLists }
    \cup { << [parts |-> ps], [parts |-> qs] >> :
              ps \in PartLists, qs \in { l \in PartLists : Len(l) <= 1 } }

\* The GenerateContentResponse values processGeminiResponse is applied to.
GeminiResponses ==
    { [candidates |-> cs, text |-> t] : cs \in CandidateLists, t \in ResponseTexts }

\* A response with an image after a line of text, and one with text only.
ImageResponse ==
    [candidates |-> << [parts |-> << TextPart(<<"Here is your image.">>),
                                     ImagePart(<<"image/", "png">>, <<"RESULT">>) >>] >>,
     text |-> Str(<<"Here is your image.">>)]

TextResponse ==
    [candidates |-> << [parts |-> << TextPart(<<"Sorry, I cannot edit this image.">>) >>] >>,
     text |-> Str(<<"Sorry, I cannot edit this image.">>)]

\* A response without an image whose text quotes a server error.
InternalTextResponse ==
    [candidates |-> << [parts |-> << TextPart(<<"\"code\":500", "INTERNAL">>) >>] >>,
     text |-> Str(<<"\"code\":500", "INTERNAL">>)]

\* No response (the variable's value outside an application).
NoResponse == [candidates |-> <<>>, text |-> Undefined]

(***************************************************************************)
(* The remote endpoint's answers.  A message is a sequence of tokens, and  *)
(* String.prototype.includes is containment of the token.                  *)
(***************************************************************************)
Includes(text, needle) == \E i \in 1..Len(text) : text[i] = needle

\* What generateContent can throw: Error objects with a message, and plain
\* objects, which the code stringifies.
ThrownValues ==
    { [isError |-> TRUE,  message |-> <<"\"code\":500", "INTERNAL">>, json |-> <<>>],
      [isError |-> TRUE,  message |-> <<"INTERNAL">>, json |-> <<>>],
      [isError |-> FALSE, message |-> <<>>, json |-> <<"\"code\":500">>],
      [isError |-> TRUE,  message |-> <<"\"code\":429", "RESOURCE_EXHAUSTED">>, json |-> <<>>],
      [isError |-> TRUE,  message |-> <<"\"code\":401", "UNAUTHENTICATED">>, json |-> <<>>],
      [isError |-> FALSE, message |-> <<"INTERNAL">>, json |-> <<"Failed to fetch">>] }

\* What generateContent can return.
Responses == { ImageResponse, TextResponse, InternalTextResponse }

\* The value of `outcome` while the invocation has neither returned nor thrown.
NoOutcome == [kind |-> "none", value |-> None, call |-> 0]

\* The error of line 70.
GenericError ==
    [isError |-> TRUE, message |-> <<"Gemini API call failed after all retries.">>,
     json |-> <<>>]

ErrorMessage(error) == IF error.isError THEN error.message ELSE error.json

IsInternalError(error) ==
    \/ Includes(ErrorMessage(error), "\"code\":500")
    \/ Includes(ErrorMessage(error), "INTERNAL")

RECURSIVE Pow(_, _)
Pow(b, e) == IF e = 0 THEN 1 ELSE b * Pow(b, e - 1)

BackoffDelay_ExponentOffByOne(a) == initialDelay * Pow(2, a)

BackoffDelay(a) == initialDelay * Pow(2, a - 1)

ShouldRetry_AnyError(error, a) == a < maxRetries

ShouldRetry(error, a) == IsInternalError(error) /\ a < maxRetries

LoopCondition(a) == a <= maxRetries

(***************************************************************************)
(* The top-level code of geminiService.ts, run once when the module is     *)
(* first imported.                                                         *)
(***************************************************************************)
\* The values of process.env.API_KEY.
ApiKeys == { Undefined, Str(<<>>), Str(<<"AIza-credential">>) }

\* The top-level code without the check of API_KEY.
ModuleInit_NoCheck ==
    /\ modulePc = "unloaded"
    /\ modulePc' = "loaded"
    /\ UNCHANGED <<apiKey, resolverVars, opVars>>
    /\ UNCHANGED <<retryVars, fanVars, tmVars>>
\* if (!API_KEY) throw new Error("API_KEY environment variable is not set");
\* const ai = new GoogleGenAI({ apiKey: API_KEY });
\* A module whose evaluation threw exports nothing, and is not evaluated again.
ModuleInit ==
    /\ modulePc = "unloaded"
    /\ modulePc' = IF Truthy(apiKey) THEN "loaded" ELSE "failed"
    /\ UNCHANGED <<apiKey, resolverVars, opVars>>
    /\ UNCHANGED <<retryVars, fanVars, tmVars>>
(***************************************************************************)
(* callImageModelWithRetry.                                                *)
(***************************************************************************)
\* One pass through the head of the for loop with loop variable a: the call
\* of generateContent, or the throw after the loop.
LoopHead(a, parts) ==
    /\ attempt' = a
    /\ IF LoopCondition(a)
         THEN /\ calls' = calls + 1
              /\ sent' = Append(sent, parts)
              /\ rPc' = "awaiting"
              /\ outcome' = outcome
         ELSE /\ calls' = calls
              /\ sent' = sent
              /\ rPc' = "thrown"
              /\ outcome' = [kind |-> "error", value |-> GenericError, call |-> 0]

RetryInvoke ==
    /\ modulePc = "loaded"
    /\ rPc = "idle"
    /\ LoopHead(1, request)
    /\ UNCHANGED <<timer, waits, errorLog>>
    /\ UNCHANGED <<fanVars, svcVars, tmVars>>
EndpointResolves_KeepsLooping(response) ==
    /\ rPc = "awaiting"
    /\ outcome' = [kind |-> "response", value |-> response, call |-> calls]
    /\ IF attempt < maxRetries
         THEN /\ attempt' = attempt + 1
              /\ calls' = calls + 1
              /\ sent' = Append(sent, request)
              /\ rPc' = "awaiting"
         ELSE /\ rPc' = "returned"
              /\ UNCHANGED <<attempt, calls, sent>>
    /\ UNCHANGED <<timer, waits, errorLog>>
    /\ UNCHANGED <<fanVars, svcVars, tmVars>>
EndpointResolves(response) ==
    /\ rPc = "awaiting"
    /\ rPc' = "returned"
    /\ outcome' = [kind |-> "response", value |-> response, call |-> calls]
    /\ UNCHANGED <<attempt, calls, sent, timer, waits, errorLog>>
    /\ UNCHANGED <<fanVars, svcVars, tmVars>>
EndpointRejects_ThrowsFirst(error) ==
    /\ rPc = "awaiting"
    /\ errorLog' = Append(errorLog, error)
    /\ IF ShouldRetry(error, attempt)
         THEN /\ timer' = BackoffDelay(attempt)
              /\ rPc' = "backoff"
              /\ outcome' = outcome
         ELSE /\ timer' = timer
              /\ rPc' = "thrown"
              /\ outcome' = [kind |-> "error", value |-> errorLog'[1], call |-> 1]
    /\ UNCHANGED <<attempt, calls, sent, waits>>
    /\ UNCHANGED <<fanVars, svcVars, tmVars>>
EndpointRejects(error) ==
    /\ rPc = "awaiting"
    /\ errorLog' = Append(errorLog, error)
    /\ IF ShouldRetry(error, attempt)
         THEN /\ timer' = BackoffDelay(attempt)
              /\ rPc' = "backoff"
              /\ outcome' = outcome
         ELSE /\ timer' = timer
              /\ rPc' = "thrown"
              /\ outcome' = [kind |-> "error", value |-> error, call |-> calls]
    /\ UNCHANGED <<attempt, calls, sent, waits>>
    /\ UNCHANGED <<fanVars, svcVars, tmVars>>
TimerFires ==
    /\ rPc = "backoff"
    /\ waits' = Append(waits, timer)
    /\ timer' = 0
    /\ LoopHead(attempt + 1, request)
    /\ UNCHANGED errorLog
    /\ UNCHANGED <<fanVars, svcVars, tmVars>>
RetryInit ==
    /\ rPc = "idle"
    /\ attempt = 0
    /\ calls = 0
    /\ sent = <<>>
    /\ timer = 0
    /\ waits = <<>>
    /\ errorLog = <<>>
    /\ outcome = NoOutcome

(***************************************************************************)
(* processGeminiResponse.                                                  *)
(***************************************************************************)
\* new Error(message)
JsError(message) == [isError |-> TRUE, message |-> message, json |-> <<>>]

\* No error (nothing was thrown).
NoError == [isError |-> FALSE, message |-> <<>>, json |-> <<>>]

\* No image (nothing was returned).
NoImage == <<>>

\* The value of `resolved` before processGeminiResponse is applied.
NotResolved == [kind |-> "none", url |-> NoImage, error |-> NoError]

Returned(url) == [kind |-> "value", url |-> url, error |-> NoError]

Threw(error) == [kind |-> "error", url |-> NoImage, error |-> error]

\* response.candidates?.[0]?.content?.parts, [] when any link is missing.
FirstCandidateParts(r) ==
    IF Len(r.candidates) = 0 THEN <<>> ELSE r.candidates[1].parts

\* parts.find(part => part.inlineData): the index of the first such part, 0
\* when there is none.
FindInlineData_Last(parts) ==
    LET hits == { i \in 1..Len(parts) : parts[i].hasInlineData }
    IN  IF hits = {} THEN 0 ELSE CHOOSE i \in hits : \A j \in hits : i >= j

FindInlineData(parts) ==
    LET hits == { i \in 1..Len(parts) : parts[i].hasInlineData }
    IN  IF hits = {} THEN 0 ELSE CHOOSE i \in hits : \A j \in hits : i <= j

\* textResponse || 'No text response received.'
TextOrPlaceholder_AlwaysText(text) == text.text

TextOrPlaceholder(text) ==
    IF Truthy(text) THEN text.text ELSE <<"No text response received.">>

\* The message of the error of lines 33-34.
TextInsteadOfImage(text) ==
    <<"The AI model responded with text instead of an image: ", "\"">>
    \o TextOrPlaceholder(text) \o <<"\"">>

processGeminiResponse(r) ==
    LET parts == FirstCandidateParts(r)
        found == FindInlineData(parts)
    IN  IF found /= 0
          THEN Returned(DataUrl(parts[found].mimeType, parts[found].data))
          ELSE Threw(JsError(TextInsteadOfImage(r.text)))

\* One application of processGeminiResponse to the response drawn in
\* InitResolver.
Resolve ==
    /\ resolved = NotResolved
    /\ resolved' = processGeminiResponse(givenResponse)
    /\ UNCHANGED <<givenResponse, opVars, moduleVars>>
    /\ UNCHANGED <<retryVars, fanVars, tmVars>>
ResolverInit ==
    /\ givenResponse = NoResponse
    /\ resolved = NotResolved

(***************************************************************************)
(* The transformation operations: data.                                    *)
(***************************************************************************)
Operations ==
    { "generateStyledImage", "extractOutfitFromImage", "fillMaskedImage",
      "removeObjectFromImage", "generateBackgroundFromConcept",
      "removeBackgroundFromImageAtPoint", "generatePhotoBoothImage",
      "generateCloneEffectImage", "swapFacesInImage" }

\* The image strings a caller passes: two well-formed data URLs, an SVG data
\* URL (its subtype svg+xml is not a \w+ word), and the two malformed strings
\* 'not-a-data-url' and 'data:text/plain;base64,abc'.
PngUrl == <<"data:", "image/", "png", ";base64,", "iVBORw0KGgo">>

JpegUrl == <<"data:", "image/", "jpeg", ";base64,", "/9j/4AAQSkZJRg">>

SvgUrl == <<"data:", "image/", "svg", "+", "xml", ";base64,", "PHN2Zz48L3N2Zz4">>

ImageStrings ==
    { PngUrl, JpegUrl, SvgUrl,
      <<"not-a-data-url">>,
      <<"data:", "text/", "plain", ";base64,", "abc">> }

\* The values of `count` a caller can pass at run time.
Counts == { 4, 5, 6, 8, 9, 12 }

\* The values of additionalInstructions.
Instructions ==
    { Undefined, Str(<<>>), Str(<<" ", "\n">>), Str(<<" ", "make it warmer">>) }

\* The `prompt` argument of generateStyledImage and fillMaskedImage.
UserPrompt == <<"a portrait in watercolour">>

\* handleAnimate of PoseAnimator: the image list it passes to
\* generateStyledImage for a character image and a pose reference.
handleAnimateImages(characterImage, finalPoseImage) ==
    <<characterImage, finalPoseImage>>

\* The image arguments each function takes.
ImageArgs(op) ==
    IF op = "generateStyledImage"
      THEN UNION { [1..n -> ImageStrings] : n \in 0..MaxImages }
    ELSE IF op = "swapFacesInImage" THEN [1..2 -> ImageStrings]
    ELSE [1..1 -> ImageStrings]

TakesInstructions(op) ==
    op \in { "generateStyledImage", "extractOutfitFromImage", "fillMaskedImage",
             "generateCloneEffectImage", "swapFacesInImage" }

\* The errors thrown before the try block.
AtLeastOneImage == JsError(<<"At least one image data URL is required.">>)

InvalidFormat ==
    JsError(<<"Invalid image data URL format. Expected 'data:image/...;base64,...'">>)

InvalidSource == JsError(<<"Invalid source image data URL format.">>)

InvalidFace == JsError(<<"Invalid face source data URL format.">>)

InvalidAfterMarker == JsError(<<"Invalid image data URL after drawing marker.">>)

\* The rejections of drawMarkerOnImage.
NoCanvasContext == JsError(<<"Could not get canvas context">>)

MarkerLoadFailed == JsError(<<"Failed to load image for drawing marker.">>)

\* The checks of the arguments each function makes before it builds its parts:
\* the error it throws, NoError when they pass.
Validate(op, images) ==
    LET bad == { i \in 1..Len(images) : ~MatchDataUrl(images[i]).matched }
    IN  IF op = "generateStyledImage"
          THEN IF Len(images) = 0 THEN AtLeastOneImage
               ELSE IF bad /= {} THEN InvalidFormat
               ELSE NoError
        ELSE IF op = "swapFacesInImage"
          THEN IF 1 \in bad THEN InvalidSource
               ELSE IF 2 \in bad THEN InvalidFace
               ELSE NoError
        ELSE IF op = "removeBackgroundFromImageAtPoint"
          THEN IF bad /= {} THEN InvalidAfterMarker ELSE NoError
        ELSE IF bad /= {} THEN InvalidFormat ELSE NoError

\* { 4: '2x2', 6: '2x3', 8: '2x4', 9: '3x3', 12: '3x4' }[count], which the
\* template prints as 'undefined' for any other count.
GridLayout(count) ==
    CASE count = 4 -> "2x2"
      [] count = 6 -> "2x3"
      [] count = 8 -> "2x4"
      [] count = 9 -> "3x3"
      [] count = 12 -> "3x4"
      [] OTHER -> "undefined"

\* promptText of each function, before the regeneration instructions.
PromptText(op, count) ==
    CASE op = "generateStyledImage" -> UserPrompt
      [] op = "extractOutfitFromImage" ->
            <<"Your single, most important task is to perform a perfect extraction of the entire outfit ...">>
      [] op = "fillMaskedImage" ->
            <<"Your task is to perform photorealistic inpainting. ...", "**PROMPT:** \"">>
            \o UserPrompt \o <<"\"">>
      [] op = "removeObjectFromImage" ->
            <<"You are an expert photorealistic inpainting model. You will be given an image with a transparent area ...">>
      [] op = "generateBackgroundFromConcept" ->
            <<"You are an expert photorealistic inpainting model. Your task is to identify the primary person ...">>
      [] op = "removeBackgroundFromImageAtPoint" ->
            <<"You are a world-class background removal AI. ...">>
      [] op = "generatePhotoBoothImage" ->
            <<"**MISSION: Create a \"Purikura\" Style Photo Booth Collage** ...",
              "2.  **GRID LAYOUT:** Arrange the photos in a ", GridLayout(count), " grid.", "...">>
      [] op = "generateCloneEffectImage" ->
            <<"**MISSION: Create a \"Clone Effect\" or \"Multiplicity\" photograph.** ...">>
      [] op = "swapFacesInImage" ->
            <<"**CRITICAL MISSION: Photorealistic Face Swap** ...">>

\* The block appended whenever the instructions are a non-empty string,
\* whitespace-only ones included.
WithRegenerationInstructions_WhenTruthy(promptText, instructions) ==
    IF Truthy(instructions)
      THEN promptText \o <<"\n\n**REGENERATION INSTRUCTIONS:**\n">> \o instructions.text
      ELSE promptText

\* if (additionalInstructions && additionalInstructions.trim() !== '')
\*     promptText += `\n\n**REGENERATION INSTRUCTIONS:**\n${additionalInstructions}`
WithRegenerationInstructions(promptText, instructions) ==
    IF Truthy(instructions) /\ Trim(instructions.text) /= <<>>
      THEN promptText \o <<"\n\n**REGENERATION INSTRUCTIONS:**\n">> \o instructions.text
      ELSE promptText

\* allParts with the text part put first.
AllParts_TextFirst(op, images, count, instructions) ==
    << TextPart(WithRegenerationInstructions(PromptText(op, count), instructions)) >>
    \o [i \in 1..Len(images) |->
          ImagePart(MatchDataUrl(images[i]).mimeType, MatchDataUrl(images[i]).data)]

\* allParts with the image parts in the opposite order.
AllParts_ImagesReversed(op, images, count, instructions) ==
    [i \in 1..Len(images) |->
        ImagePart(MatchDataUrl(images[Len(images) + 1 - i]).mimeType,
                  MatchDataUrl(images[Len(images) + 1 - i]).data)]
    \o << TextPart(WithRegenerationInstructions(PromptText(op, count), instructions)) >>

\* allParts: one image part per image, in the order given, then the text part.
AllParts(op, images, count, instructions) ==
    [i \in 1..Len(images) |->
        ImagePart(MatchDataUrl(images[i]).mimeType, MatchDataUrl(images[i]).data)]
    \o << TextPart(WithRegenerationInstructions(PromptText(op, count), instructions)) >>

\* No parts (callImageModelWithRetry was not called).
NoRequest == <<>>

\* The sentence each function's catch block puts before the details.
FailureSentence(op) ==
    CASE op = "generateStyledImage" -> "The AI model failed to generate an image."
      [] op = "extractOutfitFromImage" -> "The AI model failed to extract the outfit."
      [] op = "fillMaskedImage" -> "The AI model failed to generate an image."
      [] op = "removeObjectFromImage" -> "The AI model failed to remove the object."
      [] op = "generateBackgroundFromConcept" -> "The AI model failed to generate the background."
      [] op = "removeBackgroundFromImageAtPoint" -> "The AI model failed to remove the background."
      [] op = "generatePhotoBoothImage" -> "The AI model failed to generate the photo booth image."
      [] op = "generateCloneEffectImage" -> "The AI model failed to generate the clone effect image."
      [] op = "swapFacesInImage" -> "The AI model failed to swap the face."

\* new Error(`<sentence> Details: ${errorMessage}`) of the catch block.
Wrap_DropsDetails(op, error) == JsError(<<FailureSentence(op), " Details: ">>)

Wrap(op, error) ==
    JsError(<<FailureSentence(op), " Details: ">> \o ErrorMessage(error))

\* What the Image element does with img.src: the browser decodes data URLs of
\* an image type, SVG included, and such a load can still fail; it fires
\* onerror for the other strings.
CanLoad(src) == Len(src) >= 2 /\ src[1] = "data:" /\ src[2] = "image/"

\* canvas.toDataURL('image/png'): a PNG data URL, or 'data:,' when the canvas
\* has no pixels.
MarkedUrl == <<"data:", "image/", "png", ";base64,", "MARKED">>

EmptyCanvasUrl == <<"data:,">>

\* How drawMarkerOnImage can settle for the source src.
MarkerOutcomes(src) ==
    { "loadFailed" } \cup
    (IF CanLoad(src) THEN { "drawn", "emptyCanvas", "noContext" } ELSE {})

(***************************************************************************)
(* The transformation operations: one invocation.                          *)
(***************************************************************************)
\* The function throws `error` outside its try block: the promise rejects
\* with it and callImageModelWithRetry is not called.
Throws(error) ==
    /\ opPc' = "failed"
    /\ opError' = error
    /\ UNCHANGED <<request, opImage>>
    /\ UNCHANGED retryVars

\* From the match of the image strings to the await of the first
\* generateContent call inside callImageModelWithRetry(allParts).
ValidateAndCall(images) ==
    IF Validate(opName', images) /= NoError
      THEN Throws(Validate(opName', images))
      ELSE /\ request' = AllParts(opName', images, opCount', opInstructions')
           /\ opPc' = "requesting"
           /\ LoopHead(1, request')
           /\ UNCHANGED <<timer, waits, errorLog>>
           /\ UNCHANGED <<opImage, opError>>

\* A caller invokes one of the exported functions.  The function runs up to
\* its first await: that of drawMarkerOnImage in
\* removeBackgroundFromImageAtPoint, that of generateContent in the others.
OpInvoke(op, images, count, instructions) ==
    /\ modulePc = "loaded"
    /\ opPc = "idle"
    /\ rPc = "idle"
    /\ opName' = op
    /\ opImages' = images
    /\ opCount' = count
    /\ opInstructions' = instructions
    /\ IF op = "removeBackgroundFromImageAtPoint"
         THEN /\ opPc' = "marking"
              /\ UNCHANGED <<request, opImage, opError>>
              /\ UNCHANGED retryVars
         ELSE ValidateAndCall(images)
    /\ UNCHANGED marker
    /\ UNCHANGED <<fanVars, resolverVars, moduleVars, tmVars>>
\* drawMarkerOnImage with its rejections caught by the try block of
\* removeBackgroundFromImageAtPoint.
MarkerSettles_InsideTry(how) ==
    /\ opPc = "marking"
    /\ how \in MarkerOutcomes(opImages[1])
    /\ marker' = how
    /\ UNCHANGED <<opName, opImages, opCount, opInstructions>>
    /\ CASE how = "loadFailed" -> Throws(Wrap(opName, MarkerLoadFailed))
         [] how = "noContext" -> Throws(Wrap(opName, NoCanvasContext))
         [] how = "drawn" -> ValidateAndCall(<<MarkedUrl>>)
         [] how = "emptyCanvas" -> ValidateAndCall(<<EmptyCanvasUrl>>)
    /\ UNCHANGED <<fanVars, resolverVars, moduleVars, tmVars>>
\* drawMarkerOnImage settles: img.onerror or a missing 2d context rejects, and
\* removeBackgroundFromImageAtPoint, which awaits it outside its try block,
\* rejects with the same error; img.onload resolves with canvas.toDataURL, and
\* the function goes on to match that URL and to call the model.
MarkerSettles(how) ==
    /\ opPc = "marking"
    /\ how \in MarkerOutcomes(opImages[1])
    /\ marker' = how
    /\ UNCHANGED <<opName, opImages, opCount, opInstructions>>
    /\ CASE how = "loadFailed" -> Throws(MarkerLoadFailed)
         [] how = "noContext" -> Throws(NoCanvasContext)
         [] how = "drawn" -> ValidateAndCall(<<MarkedUrl>>)
         [] how = "emptyCanvas" -> ValidateAndCall(<<EmptyCanvasUrl>>)
    /\ UNCHANGED <<fanVars, resolverVars, moduleVars, tmVars>>
\* The try block with a catch that returns instead of rethrowing.
OpSettles_SwallowsError ==
    /\ opPc = "requesting"
    /\ rPc \in { "returned", "thrown" }
    /\ LET result == IF outcome.kind = "response"
                       THEN processGeminiResponse(outcome.value)
                       ELSE Threw(outcome.value)
       IN  /\ opPc' = "succeeded"
           /\ opImage' = result.url
           /\ opError' = opError
    /\ UNCHANGED <<opName, opImages, opCount, opInstructions, marker, request>>
    /\ UNCHANGED <<retryVars, fanVars, resolverVars, moduleVars, tmVars>>
\* The try block calling the model again when the response it was returned
\* has no image and its text carries the signature of a server error.
OpSettles_RetriesOnInternalText ==
    /\ opPc = "requesting"
    /\ rPc \in { "returned", "thrown" }
    /\ LET result == IF outcome.kind = "response"
                       THEN processGeminiResponse(outcome.value)
                       ELSE Threw(outcome.value)
       IN  IF result.kind = "value"
             THEN /\ opPc' = "succeeded"
                  /\ opImage' = result.url
                  /\ opError' = opError
                  /\ UNCHANGED retryVars
             ELSE IF outcome.kind = "response" /\ IsInternalError(result.error)
                     /\ calls < maxRetries
             THEN /\ rPc' = "awaiting"
                  /\ calls' = calls + 1
                  /\ sent' = Append(sent, request)
                  /\ UNCHANGED <<opPc, opImage, opError>>
                  /\ UNCHANGED <<attempt, timer, waits, errorLog, outcome>>
             ELSE /\ opPc' = "failed"
                  /\ opError' = Wrap(opName, result.error)
                  /\ opImage' = opImage
                  /\ UNCHANGED retryVars
    /\ UNCHANGED <<opName, opImages, opCount, opInstructions, marker, request>>
    /\ UNCHANGED <<fanVars, resolverVars, moduleVars, tmVars>>
\* The try block after callImageModelWithRetry settled: its response goes
\* through processGeminiResponse, whose value the function returns; what
\* either of the two threw is caught and thrown again inside the function's
\* own error.
OpSettles ==
    /\ opPc = "requesting"
    /\ rPc \in { "returned", "thrown" }
    /\ LET result == IF outcome.kind = "response"
                       THEN processGeminiResponse(outcome.value)
                       ELSE Threw(outcome.value)
       IN  IF result.kind = "value"
             THEN /\ opPc' = "succeeded"
                  /\ opImage' = result.url
                  /\ opError' = opError
             ELSE /\ opPc' = "failed"
                  /\ opError' = Wrap(opName, result.error)
                  /\ opImage' = opImage
    /\ UNCHANGED <<opName, opImages, opCount, opInstructions, marker, request>>
    /\ UNCHANGED <<retryVars, fanVars, resolverVars, moduleVars, tmVars>>
\* The module after it was evaluated with a credential in the environment.
ModuleLoaded ==
    /\ apiKey = Str(<<"AIza-credential">>)
    /\ modulePc = "loaded"

OpInit ==
    /\ ModuleLoaded
    /\ opPc = "idle"
    /\ opName = None
    /\ opImages = <<>>
    /\ opCount = 0
    /\ opInstructions = Undefined
    /\ marker = None
    /\ request = NoRequest
    /\ opImage = NoImage
    /\ opError = NoError

(***************************************************************************)
(* ProfilePictureGenerator: data.                                          *)
(***************************************************************************)
\* The files the user can pick; FileReader turns a file into its data URL.
Files == { "fileA" }

Genders == { "male", "female" }

PromptIds == { "prompt1", "prompt2", "prompt3", "prompt4", "prompt5" }

\* getPrompts: three base prompts, then prompt4 and prompt5 in the wording
\* of the gender.
getPrompts(g) ==
    << [id |-> "prompt1", prompt |-> <<"base", "prompt1">>],
       [id |-> "prompt2", prompt |-> <<"base", "prompt2">>],
       [id |-> "prompt3", prompt |-> <<"base", "prompt3">>],
       [id |-> "prompt4", prompt |-> <<g, "prompt4">>],
       [id |-> "prompt5", prompt |-> <<g, "prompt5">>] >>

\* No prompt item (undefined).
NoItem == [id |-> None, prompt |-> <<>>]

\* promptsToUse.find(p => p.id === promptId): the first match, None if none.
FindPrompt(prompts, promptId) ==
    LET hits == { i \in 1..Len(prompts) : prompts[i].id = promptId }
    IN  IF hits = {} THEN NoItem
        ELSE prompts[CHOOSE i \in hits : \A j \in hits : i <= j]

\* resizeImageToAspectRatio(image, '9:16') of lib/utils: resolves to a data
\* URL of the image in that ratio.
resizeImageToAspectRatio(image, ratio) == <<image, ratio>>

\* No url (undefined).
NoUrl == [prompt |-> None, image |-> <<>>]

\* The data URL generateStyledImage resolves to, for a prompt and an image.
ResultUrl(item, image) == [prompt |-> item.id, image |-> image]

\* The message generateStyledImage rejects with (line 112).
FailureMessage == "The AI model failed to generate an image."

PendingCell(id) == [id |-> id, status |-> "pending", url |-> NoUrl, error |-> None]

\* The entry processSinglePrompt stores for a resolved operation.
SettledCell(item, image, ok) ==
    IF ok
      THEN [id |-> item.id, status |-> "done", url |-> ResultUrl(item, image), error |-> None]
      ELSE [id |-> item.id, status |-> "error", url |-> NoUrl, error |-> FailureMessage]

\* prev => ({ ...prev, [id]: cell })
SpreadWith_DropsPrev(prev, id, cell) == [k \in {id} |-> cell]

SpreadWith_MarksAll(prev, id, cell) ==
    [k \in (DOMAIN prev) \cup {id} |-> [cell EXCEPT !.id = k]]

SpreadWith(prev, id, cell) ==
    [k \in (DOMAIN prev) \cup {id} |-> IF k = id THEN cell ELSE prev[k]]

\* initialImages of handleGenerate: every prompt pending.
InitialImages(prompts) ==
    [k \in { prompts[i].id : i \in 1..Len(prompts) } |->
        PendingCell(k)]

\* generatedImages[id]?.status || 'pending', as renderResultView passes it.
CardStatus(id) ==
    IF id \in DOMAIN generatedImages THEN generatedImages[id].status ELSE "pending"

CardUrl(id) ==
    IF id \in DOMAIN generatedImages THEN generatedImages[id].url ELSE NoUrl

\* PolaroidCard renders a button calling onRegenerate(id): the retry button
\* of ErrorDisplay, or the regenerate button over a finished image.
RegenerateButtonShown(id) ==
    \/ CardStatus(id) = "error"
    \/ CardStatus(id) = "done" /\ CardUrl(id) /= NoUrl

Idle == [state |-> "idle", item |-> NoItem]

Finished == [state |-> "finished", item |-> NoItem]

Awaiting(item) == [state |-> "awaiting", item |-> item]

Min(a, b) == IF a < b THEN a ELSE b

(***************************************************************************)
(* ProfilePictureGenerator: handlers.                                      *)
(***************************************************************************)
\* The Uploader is rendered in the config view while no image is set.
handleImageUpload(file) ==
    /\ view = "config"
    /\ uploadedImage = None
    /\ file \notin reading
    /\ reading' = reading \cup {file}
    /\ UNCHANGED <<uiVars, hgPc, hgImage, hgGender, queue, workers, regens,
                   histVars, failing>>
    /\ UNCHANGED <<retryVars, svcVars, tmVars>>
\* reader.onloadend
ReaderLoadEnd(file) ==
    /\ file \in reading
    /\ reading' = reading \ {file}
    /\ uploadedImage' = file
    /\ generatedImages' = <<>>
    /\ UNCHANGED <<view, isLoading, gender, hgPc, hgImage, hgGender, queue,
                   workers, regens, histVars, failing>>
    /\ UNCHANGED <<retryVars, svcVars, tmVars>>
\* The "Remove image" button of the config view.
RemoveImage ==
    /\ view = "config"
    /\ uploadedImage /= None
    /\ uploadedImage' = None
    /\ UNCHANGED <<view, generatedImages, isLoading, gender, runVars, histVars, failing>>
    /\ UNCHANGED <<retryVars, svcVars, tmVars>>
setGender(g) ==
    /\ view = "config"
    /\ gender /= g
    /\ gender' = g
    /\ UNCHANGED <<view, uploadedImage, generatedImages, isLoading, runVars,
                   histVars, failing>>
    /\ UNCHANGED <<retryVars, svcVars, tmVars>>
\* handleGenerate up to its await of resizeImageToAspectRatio.  The button is
\* rendered in the config view and disabled while !uploadedImage || isLoading.
handleGenerate ==
    /\ view = "config"
    /\ uploadedImage /= None
    /\ ~isLoading
    /\ invocation < MaxInvocations
    /\ isLoading' = TRUE
    /\ view' = "result"
    /\ hgPc' = "resizing"
    /\ hgImage' = uploadedImage
    /\ hgGender' = gender
    /\ invocation' = invocation + 1
    /\ UNCHANGED <<uploadedImage, generatedImages, gender, reading, queue,
                   workers, regens, invKeys, regenerations, takers, failing>>
    /\ UNCHANGED <<retryVars, svcVars, tmVars>>
\* The workers all reading the head of the queue without removing it.
StartedWorkers_SameHead(q) ==
    [w \in 1..concurrencyLimit |-> IF q /= <<>> THEN Awaiting(q[1]) ELSE Finished]

\* The workers as they stand after Array(concurrencyLimit).map has started each
\* one in turn on the queue q: worker w took q[w], or found the queue empty.
StartedWorkers(q) ==
    [w \in 1..concurrencyLimit |-> IF w <= Len(q) THEN Awaiting(q[w]) ELSE Finished]

\* The workers awaiting the operation of prompt id.
TakenBy(ws, id) ==
    { w \in DOMAIN ws : ws[w].state = "awaiting" /\ ws[w].item.id = id }

\* Promise.race in place of Promise.all: one worker has ended.
AllFinished_AnyFinished(ws) == \E w \in DOMAIN ws : ws[w].state = "finished"

AllFinished(ws) == \A w \in DOMAIN ws : ws[w].state = "finished"

\* handleGenerate from the resolution of resizeImageToAspectRatio to the await
\* of Promise.all: the map is reset to pending, the queue is filled and each
\* worker runs up to its first await.
HgResized ==
    /\ hgPc = "resizing"
    /\ LET promptsToUse == getPrompts(hgGender)
           taken == Min(concurrencyLimit, Len(promptsToUse))
       IN  /\ generatedImages' = InitialImages(promptsToUse)
           /\ invKeys' = Append(invKeys, DOMAIN InitialImages(promptsToUse))
           /\ workers' = StartedWorkers(promptsToUse)
           /\ takers' = [id \in PromptIds |-> Cardinality(TakenBy(workers', id))]
           /\ queue' = SubSeq(promptsToUse, taken + 1, Len(promptsToUse))
           /\ IF AllFinished(workers')
                THEN hgPc' = "done" /\ isLoading' = FALSE
                ELSE hgPc' = "running" /\ isLoading' = isLoading
    /\ UNCHANGED <<view, uploadedImage, gender, reading, hgImage, hgGender,
                   regens, invocation, regenerations, failing>>
    /\ UNCHANGED <<retryVars, svcVars, tmVars>>
WorkerNext_EndsAfterOneJob == Finished

\* The worker after its job settled: the next pass of while (queue.length > 0).
WorkerNext ==
    IF queue /= <<>> THEN Awaiting(Head(queue)) ELSE Finished

\* processSinglePrompt without its catch: the rejection ends the worker, and
\* Promise.all rejects, so handleGenerate never reaches setIsLoading(false).
JobResolves_NoCatch(w, ok) ==
    /\ hgPc = "running"
    /\ workers[w].state = "awaiting"
    /\ LET item == workers[w].item
           image == resizeImageToAspectRatio(hgImage, "9:16")
       IN  generatedImages' =
               IF ok THEN SpreadWith(generatedImages, item.id, SettledCell(item, image, ok))
                     ELSE generatedImages
    /\ workers' = [workers EXCEPT ![w] = IF ok THEN WorkerNext ELSE Finished]
    /\ queue' = IF workers'[w].state = "awaiting" THEN Tail(queue) ELSE queue
    /\ takers' = IF workers'[w].state = "awaiting"
                  THEN [takers EXCEPT ![workers'[w].item.id] = @ + 1]
                  ELSE takers
    /\ IF ok /\ AllFinished(workers')
         THEN hgPc' = "done" /\ isLoading' = FALSE
         ELSE hgPc' = hgPc /\ isLoading' = isLoading
    /\ UNCHANGED <<view, uploadedImage, gender, reading, hgImage, hgGender,
                   regens, invocation, invKeys, regenerations, failing>>
    /\ UNCHANGED <<retryVars, svcVars, tmVars>>
\* generateStyledImage of worker w settles (ok: it resolved; otherwise it
\* rejected): processSinglePrompt stores the entry, the worker takes the next
\* queued item or ends, and when the last worker ends Promise.all resolves and
\* handleGenerate sets isLoading to false.
JobResolves(w, ok) ==
    /\ hgPc = "running"
    /\ workers[w].state = "awaiting"
    /\ LET item == workers[w].item
           image == resizeImageToAspectRatio(hgImage, "9:16")
       IN  generatedImages' =
               SpreadWith(generatedImages, item.id, SettledCell(item, image, ok))
    /\ workers' = [workers EXCEPT ![w] = WorkerNext]
    /\ queue' = IF workers'[w].state = "awaiting" THEN Tail(queue) ELSE queue
    /\ takers' = IF workers'[w].state = "awaiting"
                  THEN [takers EXCEPT ![workers'[w].item.id] = @ + 1]
                  ELSE takers
    /\ IF AllFinished(workers')
         THEN hgPc' = "done" /\ isLoading' = FALSE
         ELSE hgPc' = hgPc /\ isLoading' = isLoading
    /\ UNCHANGED <<view, uploadedImage, gender, reading, hgImage, hgGender,
                   regens, invocation, invKeys, regenerations, failing>>
    /\ UNCHANGED <<retryVars, svcVars, tmVars>>
RegenOp(item, image, phase) ==
    [id |-> item.id, item |-> item, image |-> image, phase |-> phase, inv |-> invocation]

\* handleRegenerate(promptId) up to its await of resizeImageToAspectRatio.
handleRegenerate(promptId) ==
    /\ view = "result"
    /\ RegenerateButtonShown(promptId)
    /\ regenerations < MaxRegenerations
    /\ regenerations' = regenerations + 1
    /\ LET promptItem == FindPrompt(getPrompts(gender), promptId)
       IN  IF uploadedImage = None \/ promptItem = NoItem
             THEN UNCHANGED <<generatedImages, regens>>
             ELSE /\ generatedImages' =
                        SpreadWith(generatedImages, promptId, PendingCell(promptId))
                  /\ regens' = regens (+) SetToBag({RegenOp(promptItem, uploadedImage, "resizing")})
    /\ UNCHANGED <<view, uploadedImage, isLoading, gender, reading, hgPc, hgImage,
                   hgGender, queue, workers, invocation, invKeys, takers, failing>>
    /\ UNCHANGED <<retryVars, svcVars, tmVars>>
\* handleRegenerate from the resolution of the resize to the await inside
\* generateStyledImage.
RegenResized(op) ==
    /\ BagIn(op, regens)
    /\ op.phase = "resizing"
    /\ regens' = (regens (-) SetToBag({op})) (+) SetToBag({[op EXCEPT !.phase = "awaiting"]})
    /\ UNCHANGED <<uiVars, reading, hgPc, hgImage, hgGender, queue, workers,
                   histVars, failing>>
    /\ UNCHANGED <<retryVars, svcVars, tmVars>>
\* generateStyledImage of a handleRegenerate call settles.
RegenResolves(op, ok) ==
    /\ BagIn(op, regens)
    /\ op.phase = "awaiting"
    /\ regens' = regens (-) SetToBag({op})
    /\ generatedImages' =
           SpreadWith(generatedImages, op.id,
                      SettledCell(op.item, resizeImageToAspectRatio(op.image, "9:16"), ok))
    /\ UNCHANGED <<view, uploadedImage, isLoading, gender, reading, hgPc, hgImage,
                   hgGender, queue, workers, histVars, failing>>
    /\ UNCHANGED <<retryVars, svcVars, tmVars>>
\* The two "start over" buttons of the result view.
handleStartOver ==
    /\ view = "result"
    /\ uploadedImage' = None
    /\ generatedImages' = <<>>
    /\ view' = "config"
    /\ UNCHANGED <<isLoading, gender, runVars, histVars, failing>>
    /\ UNCHANGED <<retryVars, svcVars, tmVars>>
FanInit ==
    /\ view = "config"
    /\ uploadedImage = None
    /\ generatedImages = <<>>
    /\ isLoading = FALSE
    /\ gender = "female"
    /\ reading = {}
    /\ hgPc = "idle"
    /\ hgImage = None
    /\ hgGender = None
    /\ queue = <<>>
    /\ workers = [w \in 1..concurrencyLimit |-> Idle]
    /\ regens = EmptyBag
    /\ invocation = 0
    /\ invKeys = <<>>
    /\ regenerations = 0
    /\ takers = [id \in PromptIds |-> 0]

(***************************************************************************)
(* TimeMachine: the component's state and handlers.  Its operation is      *)
(* generateStyledImage(prompt, [uploadedImage], instructions), of which     *)
(* the component sees the resolution or the rejection.                      *)
(***************************************************************************)
\* The files the user can pick in the TimeMachine tool.
TimeMachineFiles == { "photoA", "photoB" }

\* The data URL generateStyledImage resolves with for the image it was given.
TimeMachineResult(image) == IF image = "photoA" THEN "portrait of photoA"
                                                ELSE "portrait of photoB"

\* err.message of the rejection of generateStyledImage.
TimeMachineFailure == "The AI model failed to generate an image. Details: ..."

\* The Uploader is rendered in the config view while no image is set.
TimeMachine_handleImageUpload(file) ==
    /\ tmView = "config"
    /\ tmUploadedImage = None
    /\ file \notin tmReading
    /\ tmReading' = tmReading \cup {file}
    /\ UNCHANGED <<tmView, tmUploadedImage, tmGeneratedImage, tmIsLoading, tmError,
                   tmPc, tmOpImage>>
    /\ UNCHANGED <<retryVars, fanVars, svcVars>>

\* reader.onloadend
TimeMachine_ReaderLoadEnd(file) ==
    /\ file \in tmReading
    /\ tmReading' = tmReading \ {file}
    /\ tmUploadedImage' = file
    /\ tmGeneratedImage' = None
    /\ tmError' = None
    /\ UNCHANGED <<tmView, tmIsLoading, tmPc, tmOpImage>>
    /\ UNCHANGED <<retryVars, fanVars, svcVars>>

\* The button over the uploaded image in the config view.
TimeMachine_RemoveImage ==
    /\ tmView = "config"
    /\ tmUploadedImage /= None
    /\ tmUploadedImage' = None
    /\ UNCHANGED <<tmView, tmGeneratedImage, tmIsLoading, tmError, tmReading,
                   tmPc, tmOpImage>>
    /\ UNCHANGED <<retryVars, fanVars, svcVars>>

\* The "start over" button of the result view.
TimeMachine_handleStartOver ==
    /\ tmView = "result"
    /\ tmUploadedImage' = None
    /\ tmGeneratedImage' = None
    /\ tmError' = None
    /\ tmView' = "config"
    /\ UNCHANGED <<tmIsLoading, tmReading, tmPc, tmOpImage>>
    /\ UNCHANGED <<retryVars, fanVars, svcVars>>

\* The header's "go back" button while the result view is shown.
TimeMachine_handleGoBackToConfig ==
    /\ tmView = "result"
    /\ tmGeneratedImage' = None
    /\ tmError' = None
    /\ tmView' = "config"
    /\ UNCHANGED <<tmUploadedImage, tmIsLoading, tmReading, tmPc, tmOpImage>>
    /\ UNCHANGED <<retryVars, fanVars, svcVars>>

\* The generate button of the config view (disabled while !uploadedImage ||
\* isLoading) and the retry button of the result view (rendered while
\* error && !isLoading).
GenerateButtonEnabled == tmView = "config" /\ tmUploadedImage /= None /\ ~tmIsLoading

RetryButtonShown == tmView = "result" /\ tmError /= None /\ ~tmIsLoading

\* handleGenerate up to its await of generateStyledImage: setIsLoading(true),
\* setError(null), setView('result'); generatedImage is left as it is.
TimeMachine_handleGenerate ==
    /\ GenerateButtonEnabled \/ RetryButtonShown
    /\ tmPc = "idle"
    /\ IF tmUploadedImage = None
         THEN UNCHANGED <<tmIsLoading, tmError, tmView, tmPc, tmOpImage>>
         ELSE /\ tmIsLoading' = TRUE
              /\ tmError' = None
              /\ tmView' = "result"
              /\ tmPc' = "awaiting"
              /\ tmOpImage' = tmUploadedImage
    /\ UNCHANGED <<tmUploadedImage, tmGeneratedImage, tmReading>>
    /\ UNCHANGED <<retryVars, fanVars, svcVars>>

\* generateStyledImage settles (ok: it resolved; otherwise it rejected):
\* setGeneratedImage(resultUrl) or setError(err.message), then the finally
\* block's setIsLoading(false).
TimeMachine_GenerateSettles(ok) ==
    /\ tmPc = "awaiting"
    /\ tmPc' = "idle"
    /\ IF ok THEN /\ tmGeneratedImage' = TimeMachineResult(tmOpImage)
                  /\ tmError' = tmError
             ELSE /\ tmError' = TimeMachineFailure
                  /\ tmGeneratedImage' = tmGeneratedImage
    /\ tmIsLoading' = FALSE
    /\ UNCHANGED <<tmView, tmUploadedImage, tmReading, tmOpImage>>
    /\ UNCHANGED <<retryVars, fanVars, svcVars>>

TimeMachineInit ==
    /\ tmView = "config"
    /\ tmUploadedImage = None
    /\ tmGeneratedImage = None
    /\ tmIsLoading = FALSE
    /\ tmError = None
    /\ tmReading = {}
    /\ tmPc = "idle"
    /\ tmOpImage = None

(***************************************************************************)
(* Specifications.                                                         *)
(***************************************************************************)
Init == RetryInit /\ FanInit /\ TimeMachineInit /\ ResolverInit /\ OpInit /\ failing = {}

\* The fan-out with every user action and every outcome of every operation.
Next ==
    \/ \E file \in Files : handleImageUpload(file)
    \/ \E file \in Files : ReaderLoadEnd(file)
    \/ RemoveImage
    \/ \E g \in Genders : setGender(g)
    \/ handleGenerate
    \/ HgResized
    \/ \E w \in 1..concurrencyLimit, ok \in BOOLEAN : JobResolves(w, ok)
    \/ \E id \in PromptIds : handleRegenerate(id)
    \/ \E op \in BagToSet(regens) : RegenResized(op)
    \/ \E op \in BagToSet(regens), ok \in BOOLEAN : RegenResolves(op, ok)
    \/ handleStartOver

Spec == Init /\ [][Next]_vars

\* One invocation of callImageModelWithRetry against every sequence of
\* answers of the endpoint.
NextRetry ==
    \/ RetryInvoke
    \/ \E response \in Responses : EndpointResolves(response)
    \/ \E error \in ThrownValues : EndpointRejects(error)
    \/ TimerFires

SpecRetry == Init /\ [][NextRetry]_vars

\* A batch left alone by the user, in which the operation of a job fails
\* exactly when the job is in `failing`.
InitBatch ==
    RetryInit /\ FanInit /\ TimeMachineInit /\ ResolverInit /\ OpInit /\ failing \in SUBSET PromptIds

NextBatch ==
    \/ \E file \in Files : handleImageUpload(file)
    \/ \E file \in Files : ReaderLoadEnd(file)
    \/ \E g \in Genders : setGender(g)
    \/ handleGenerate
    \/ HgResized
    \/ \E w \in 1..concurrencyLimit : JobResolves(w, workers[w].item.id \notin failing)

SpecBatch == InitBatch /\ [][NextBatch]_vars

\* One batch and the regenerations the cards offer, with every outcome of
\* every operation; the user does not start over.
NextRegenerate ==
    \/ \E file \in Files : handleImageUpload(file)
    \/ \E file \in Files : ReaderLoadEnd(file)
    \/ \E g \in Genders : setGender(g)
    \/ handleGenerate
    \/ HgResized
    \/ \E w \in 1..concurrencyLimit, ok \in BOOLEAN : JobResolves(w, ok)
    \/ \E id \in PromptIds : handleRegenerate(id)
    \/ \E op \in BagToSet(regens) : RegenResized(op)
    \/ \E op \in BagToSet(regens), ok \in BOOLEAN : RegenResolves(op, ok)

SpecRegenerate == Init /\ [][NextRegenerate]_vars

\* A batch left alone by the user, with every outcome of every operation,
\* beside one invocation of callImageModelWithRetry, under the scheduling the code relies on: the resize
\* settles, every operation of a worker settles, every call of generateContent
\* is answered and every timer set by setTimeout fires.
NextTerminates ==
    \/ \E file \in Files : handleImageUpload(file)
    \/ \E file \in Files : ReaderLoadEnd(file)
    \/ \E g \in Genders : setGender(g)
    \/ handleGenerate
    \/ HgResized
    \/ \E w \in 1..concurrencyLimit, ok \in BOOLEAN : JobResolves(w, ok)
    \/ RetryInvoke
    \/ \E response \in Responses : EndpointResolves(response)
    \/ \E error \in ThrownValues : EndpointRejects(error)
    \/ TimerFires

EndpointAnswers ==
    \/ \E response \in Responses : EndpointResolves(response)
    \/ \E error \in ThrownValues : EndpointRejects(error)

FairScheduling ==
    /\ WF_vars(HgResized)
    /\ \A w \in 1..concurrencyLimit :
          WF_vars(\E ok \in BOOLEAN : JobResolves(w, ok))
    /\ WF_vars(EndpointAnswers)
    /\ WF_vars(TimerFires)

SpecTerminates == Init /\ [][NextTerminates]_vars /\ FairScheduling


\* processGeminiResponse applied once to each response of GeminiResponses.
InitResolver ==
    /\ RetryInit /\ FanInit /\ TimeMachineInit /\ OpInit /\ failing = {}
    /\ givenResponse \in GeminiResponses
    /\ resolved = NotResolved

NextResolver == Resolve

SpecResolver == InitResolver /\ [][NextResolver]_vars

\* One invocation of one of the transformation operations, for every function,
\* every argument list and every sequence of answers of the endpoint.
NextOperation ==
    \/ \E op \in Operations :
          \E images \in ImageArgs(op) :
             \E count \in (IF op = "generatePhotoBoothImage" THEN Counts ELSE {0}) :
                \E instructions \in (IF TakesInstructions(op) THEN Instructions
                                                              ELSE {Undefined}) :
                   OpInvoke(op, images, count, instructions)
    \/ \E how \in { "loadFailed", "noContext", "drawn", "emptyCanvas" } : MarkerSettles(how)
    \/ \E r \in Responses : EndpointResolves(r)
    \/ \E error \in ThrownValues : EndpointRejects(error)
    \/ TimerFires
    \/ OpSettles

SpecOperation == Init /\ [][NextOperation]_vars

\* The same under the scheduling the code relies on: the image element fires
\* onload or onerror, the endpoint answers, the timer fires and the
\* continuation of the await runs.
OperationScheduling ==
    /\ WF_vars(\E how \in { "loadFailed", "noContext", "drawn", "emptyCanvas" } :
                  MarkerSettles(how))
    /\ WF_vars(EndpointAnswers)
    /\ WF_vars(TimerFires)
    /\ WF_vars(OpSettles)

SpecOperationFair == Init /\ [][NextOperation]_vars /\ OperationScheduling

\* The inlineData.mimeType and inlineData.data values a response part can
\* carry: image types of one word, an image type with a suffix, a type that is
\* no image; base64 text with and without '+', '/', '=', empty, and base64
\* text broken into lines.
MediaTypes ==
    { <<"image/", "png">>, <<"image/", "jpeg">>, <<"image/", "webp">>,
      <<"image/", "svg", "+", "xml">>, <<"text/", "plain">> }

Payloads ==
    { <<"RESULT">>, <<"iVBORw0KGgo">>, <<"/9j/4AAQSkZJRg">>,
      <<"AAAA", "+", "/", "==">>, <<>>, <<"AAAA", "\n", "BBBB">> }

\* A response whose only part is the image (mimeType, data).
ResponseWith(mimeType, data) ==
    [candidates |-> << [parts |-> << ImagePart(mimeType, data) >>] >>,
     text |-> Undefined]

\* processGeminiResponse encodes the image of a response, and the string it
\* returns is given, as every image argument, to one of the transformation
\* functions, which decodes it.
InitCodec ==
    /\ RetryInit /\ FanInit /\ TimeMachineInit /\ OpInit /\ failing = {}
    /\ givenResponse \in { ResponseWith(m, p) : m \in MediaTypes, p \in Payloads }
    /\ resolved = NotResolved

NextCodec ==
    \/ Resolve
    \/ \E op \in Operations :
          \E images \in { l \in [1..(IF op = "swapFacesInImage" THEN 2 ELSE 1) ->
                                   { resolved.url }] : resolved.kind = "value" } :
             \E count \in (IF op = "generatePhotoBoothImage" THEN Counts ELSE {0}) :
                \E instructions \in (IF TakesInstructions(op) THEN Instructions
                                                              ELSE {Undefined}) :
                   OpInvoke(op, images, count, instructions)
    \/ \E how \in { "loadFailed", "noContext", "drawn", "emptyCanvas" } : MarkerSettles(how)

SpecCodec == InitCodec /\ [][NextCodec]_vars

\* Batches with every outcome of every operation, in which the user may start
\* over, remove the image and upload again at any moment; no card is
\* regenerated.
NextStartOver ==
    \/ \E file \in Files : handleImageUpload(file)
    \/ \E file \in Files : ReaderLoadEnd(file)
    \/ RemoveImage
    \/ \E g \in Genders : setGender(g)
    \/ handleGenerate
    \/ HgResized
    \/ \E w \in 1..concurrencyLimit, ok \in BOOLEAN : JobResolves(w, ok)
    \/ handleStartOver

SpecStartOver == Init /\ [][NextStartOver]_vars

\* The TimeMachine tool under every sequence of uploads, generate and retry
\* clicks, go-back and start-over clicks and completions of its operation.
NextTimeMachine ==
    \/ \E file \in TimeMachineFiles : TimeMachine_handleImageUpload(file)
    \/ \E file \in TimeMachineFiles : TimeMachine_ReaderLoadEnd(file)
    \/ TimeMachine_RemoveImage
    \/ TimeMachine_handleStartOver
    \/ TimeMachine_handleGoBackToConfig
    \/ TimeMachine_handleGenerate
    \/ \E ok \in BOOLEAN : TimeMachine_GenerateSettles(ok)

SpecTimeMachine == Init /\ [][NextTimeMachine]_vars

\* The module is imported in an environment with or without a credential,
\* and the exported functions are invoked once it has loaded.
InitStartup ==
    /\ RetryInit /\ FanInit /\ TimeMachineInit /\ ResolverInit /\ failing = {}
    /\ apiKey \in ApiKeys
    /\ modulePc = "unloaded"
    /\ opPc = "idle"
    /\ opName = None
    /\ opImages = <<>>
    /\ opCount = 0
    /\ opInstructions = Undefined
    /\ marker = None
    /\ request = NoRequest
    /\ opImage = NoImage
    /\ opError = NoError

NextStartup ==
    \/ ModuleInit
    \/ NextOperation

SpecStartup == InitStartup /\ [][NextStartup]_vars

(***************************************************************************)
(* Properties of callImageModelWithRetry, checked under SpecRetry.         *)
(***************************************************************************)
\* The failure carries the transient-server signature: its detail holds the
\* 500 status code or the internal-error indicator.
HasTransientSignature(error) ==
    LET detail == IF error.isError THEN error.message ELSE error.json
    IN  \E i \in 1..Len(detail) : detail[i] \in { "\"code\":500", "INTERNAL" }

Terminated == rPc \in { "returned", "thrown" }

\* C1: an invocation makes at least 1 and at most 3 calls of generateContent,
\* one per attempt, whatever the endpoint answers.
C1_CallsBetweenOneAndThree ==
    /\ rPc = "idle" => calls = 0
    /\ rPc /= "idle" => calls >= 1 /\ calls <= 3 /\ calls = attempt

C1_Witness == rPc = "thrown" /\ calls = 3

\* C2: when every attempt fails with the transient signature, the endpoint is
\* called exactly 3 times and the invocation throws the error of the third
\* attempt.
C2_ExhaustedThrowsLastError ==
    ( /\ Terminated
      /\ Len(errorLog) = calls
      /\ \A i \in 1..Len(errorLog) : HasTransientSignature(errorLog[i]) )
    => /\ calls = 3
       /\ rPc = "thrown"
       /\ outcome.kind = "error"
       /\ outcome.call = 3
       /\ outcome.value = errorLog[3]
       /\ outcome.value /= GenericError

C2_Witness ==
    /\ rPc = "thrown"
    /\ calls = 3
    /\ Len(errorLog) = 3
    /\ \A i \in 1..3 : HasTransientSignature(errorLog[i])

\* C3: an error without the transient signature ends the invocation at once:
\* it is the last error caught, it is the one thrown, no call follows it and
\* no delay is scheduled or waited after it; caught on the first attempt, it
\* leaves the endpoint called exactly once.
C3_NonTransientThrownAtOnce ==
    \A k \in 1..Len(errorLog) :
        ~HasTransientSignature(errorLog[k])
        => /\ rPc = "thrown"
           /\ k = Len(errorLog)
           /\ calls = k
           /\ outcome.kind = "error"
           /\ outcome.call = k
           /\ outcome.value = errorLog[k]
           /\ Len(waits) = k - 1
           /\ timer = 0

C3_Witness ==
    /\ rPc = "thrown"
    /\ calls = 1
    /\ Len(errorLog) = 1
    /\ ~HasTransientSignature(errorLog[1])
    /\ waits = <<>>

\* C4: the wait before attempt 2 is 1000 ms and the wait before attempt 3 is
\* 2000 ms; nothing is waited before attempt 1 or after a failed attempt 3.
C4_BackoffDelays ==
    /\ Len(waits) <= 2
    /\ Len(waits) >= 1 => waits[1] = 1000
    /\ Len(waits) >= 2 => waits[2] = 2000
    /\ rPc = "awaiting" => Len(waits) = attempt - 1 /\ timer = 0
    /\ rPc = "backoff" =>
          /\ attempt \in { 1, 2 }
          /\ Len(waits) = attempt - 1
          /\ timer = IF attempt = 1 THEN 1000 ELSE 2000
    /\ Terminated => Len(waits) = calls - 1 /\ timer = 0

C4_Witness ==
    /\ rPc = "thrown"
    /\ calls = 3
    /\ waits = <<1000, 2000>>
    /\ HasTransientSignature(errorLog[3])

\* C5: an invocation that returns returns the response of its last call, made
\* after transient failures only, and a response once received ends the
\* invocation: total calls = failures + 1.  An error with the transient
\* signature is thrown only by the third attempt.
C5_SuccessEndsTheInvocation ==
    /\ outcome.kind = "response" => rPc = "returned"
    /\ outcome.kind = "error" /\ HasTransientSignature(outcome.value) => calls = 3
    /\ rPc = "returned" =>
          /\ outcome.kind = "response"
          /\ outcome.call = calls
          /\ calls = Len(errorLog) + 1
          /\ calls = attempt
          /\ calls <= 3
          /\ \A i \in 1..Len(errorLog) : HasTransientSignature(errorLog[i])

C5_Witness ==
    /\ rPc = "returned"
    /\ calls = 3
    /\ Len(errorLog) = 2
    /\ outcome.call = 3

(***************************************************************************)
(* Properties of the fan-out.                                              *)
(***************************************************************************)
\* The operations awaiting the network: the workers' and the regenerations'.
AwaitingNetwork ==
    Cardinality({ w \in DOMAIN workers : workers[w].state = "awaiting" })
    + BagCardinality([ op \in { o \in BagToSet(regens) : o.phase = "awaiting" }
                        |-> CopiesIn(op, regens) ])

\* C6: at most 3 generateStyledImage operations await the network at any
\* instant, the batch workers and the regenerations the cards allow together.
C6_AtMostThreeAwaitingNetwork == AwaitingNetwork <= 3

\* C7: a batch in which exactly the jobs of `failing` fail ends with those jobs
\* in 'error' with a message and all others 'done' with a url; while jobs are
\* queued no worker has stopped, and when the workers have ended the batch has
\* completed.  Checked under SpecBatch.
C7_BatchIsolatesFailures ==
    /\ hgPc = "done" =>
          /\ ~isLoading
          /\ queue = <<>>
          /\ DOMAIN generatedImages = PromptIds
          /\ \A id \in PromptIds :
                IF id \in failing
                  THEN /\ generatedImages[id].status = "error"
                       /\ generatedImages[id].error /= None
                  ELSE /\ generatedImages[id].status = "done"
                       /\ generatedImages[id].url /= NoUrl
    /\ hgPc = "running" /\ queue /= <<>> =>
          \A w \in DOMAIN workers : workers[w].state = "awaiting"
    /\ hgPc = "running" =>
          \E w \in DOMAIN workers : workers[w].state = "awaiting"

C7_Witness ==
    /\ hgPc = "done"
    /\ failing = { "prompt3" }
    /\ generatedImages["prompt3"].status = "error"
    /\ generatedImages["prompt5"].status = "done"

\* A step of a handleRegenerate call for job id: such a call starts, passes its
\* resize, or settles.
RegenerateStepOn(id) ==
    \E op \in BagToSet(regens) \cup BagToSet(regens') :
        op.id = id /\ CopiesIn(op, regens) /= CopiesIn(op, regens')

OthersUntouched(id) ==
    \A j \in PromptIds \ {id} :
        /\ j \in DOMAIN generatedImages <=> j \in DOMAIN generatedImages'
        /\ j \in DOMAIN generatedImages => generatedImages'[j] = generatedImages[j]

\* C8: every step of handleRegenerate(id) leaves the entries of all other jobs
\* as they are; its first step sets job id to 'pending' and its last one to
\* 'done' or 'error'.  Checked under SpecRegenerate, and holds of a
\* regeneration started while the batch still runs as well.
C8_RegenerateTouchesOnlyItsJob ==
    [][ \A id \in PromptIds :
          RegenerateStepOn(id) =>
            /\ OthersUntouched(id)
            /\ id \in DOMAIN generatedImages'
            /\ BagCardinality(regens') > BagCardinality(regens)
                  => generatedImages'[id].status = "pending"
            /\ BagCardinality(regens') < BagCardinality(regens)
                  => generatedImages'[id].status \in { "done", "error" } ]_vars

C8_Witness ==
    /\ hgPc = "done"
    /\ \E op \in BagToSet(regens) : op.id = "prompt2" /\ op.phase = "awaiting"
    /\ generatedImages["prompt2"].status = "pending"
    /\ generatedImages["prompt1"].status = "error"
    /\ \A j \in PromptIds \ { "prompt2" } :
          generatedImages[j].status \in { "done", "error" }

\* Job id's entry is set to 'done' or 'error' by this step.
Settled(id) ==
    /\ id \in DOMAIN generatedImages'
    /\ generatedImages'[id].status \in { "done", "error" }
    /\ id \in DOMAIN generatedImages => generatedImages'[id] /= generatedImages[id]

\* An operation for job id, started for the current invocation, settles in
\* this step: that of a worker, or that of a handleRegenerate call.
OwnOperationSettles(id) ==
    \/ \E w \in DOMAIN workers :
          /\ workers[w].state = "awaiting"
          /\ workers[w].item.id = id
          /\ workers'[w] /= workers[w]
    \/ \E op \in BagToSet(regens) :
          /\ op.id = id
          /\ op.phase = "awaiting"
          /\ op.inv = invocation
          /\ CopiesIn(op, regens') < CopiesIn(op, regens)

\* C9: a job's entry is set to 'done' or 'error' only by the operation that is
\* processing that job for the current fan-out invocation.
C9_CellWrittenOnlyByItsOwnOperation ==
    [][ \A id \in PromptIds : Settled(id) => OwnOperationSettles(id) ]_vars

\* C10: no key an invocation of handleGenerate installs in the status map was
\* installed by an earlier invocation.
C10_JobIdsNeverReused ==
    \A i, j \in DOMAIN invKeys : i < j => invKeys[i] \cap invKeys[j] = {}

\* The workers of the batch whose job awaits its operation.
InFlight == { w \in DOMAIN workers : workers[w].state = "awaiting" }

\* While the batch runs the queue is the rest of the prompt list, every job
\* in flight comes before every queued job in the list, and while a job is
\* queued all three workers hold a job.
QueueIsRestOfList ==
    hgPc = "running" =>
        LET prompts == getPrompts(hgGender)
            n == Len(prompts) - Len(queue)
        IN  /\ n >= 0
            /\ queue = SubSeq(prompts, n + 1, Len(prompts))
            /\ \A w \in InFlight : \E i \in 1..n : workers[w].item = prompts[i]
            /\ queue /= <<>> => Cardinality(InFlight) = 3

\* The workers start on the first three prompts in order; afterwards the
\* queue changes only by losing its head, which goes to the worker whose job
\* resolved in that step, and a worker whose job resolves while a job is queued
\* takes it in the same step.
StartsHeadOfQueue ==
    /\ hgPc = "resizing" /\ hgPc' = "running" =>
          /\ \A w \in 1..3 : workers'[w] = Awaiting(getPrompts(hgGender)[w])
          /\ queue' = SubSeq(getPrompts(hgGender), 4, Len(getPrompts(hgGender)))
    /\ hgPc = "running" /\ queue' /= queue =>
          /\ queue' = Tail(queue)
          /\ \E w \in InFlight :
                /\ workers'[w] = Awaiting(Head(queue))
                /\ \A v \in DOMAIN workers \ {w} : workers'[v] = workers[v]
    /\ hgPc = "running" /\ queue /= <<>> =>
          \A w \in InFlight :
              workers'[w] /= workers[w] =>
                  workers'[w] = Awaiting(Head(queue)) /\ queue' = Tail(queue)

\* C11: the batch starts its jobs in the order of the prompt list, and while
\* the shared queue is non-empty exactly 3 of its jobs are in flight: the
\* worker whose job resolves takes the head of the queue in the same step.
\* Checked under SpecRegenerate, with regenerations running beside the batch.
C11_WorkConservingFirstCome ==
    []QueueIsRestOfList /\ [][StartsHeadOfQueue]_vars

C11_Witness ==
    /\ hgPc = "running"
    /\ Len(queue) = 1
    /\ queue[1].id = "prompt5"
    /\ Cardinality(InFlight) = 3
    /\ \E w \in InFlight : workers[w].item.id = "prompt4"
    /\ \E id \in PromptIds : CardStatus(id) \in { "done", "error" }

\* The status a card shows for job id under the status map `images`.
StatusIn(images, id) ==
    IF id \in DOMAIN images THEN images[id].status ELSE "pending"

\* This step reports the completion of job id.
ReportsCompletion(id) ==
    /\ StatusIn(generatedImages, id) = "pending"
    /\ StatusIn(generatedImages', id) \in { "done", "error" }

\* An operation for job id resolves in this step: that of the worker holding
\* the job, or that of a handleRegenerate call.
OperationResolvesFor(id) ==
    \/ \E w \in InFlight : workers[w].item.id = id /\ workers'[w] /= workers[w]
    \/ \E op \in BagToSet(regens) :
          /\ op.id = id
          /\ op.phase = "awaiting"
          /\ CopiesIn(op, regens') < CopiesIn(op, regens)

\* C12: a job goes from 'pending' to 'done' or 'error' in the step in which an
\* operation for that job resolves, whatever the other jobs are doing, and that
\* step changes the entry of no other job; every resolution of an operation is
\* reported in its own step.  Checked under SpecRegenerate.
C12_CompletionReportedPerJob ==
    [][ /\ \A id \in PromptIds :
              ReportsCompletion(id) => OperationResolvesFor(id) /\ OthersUntouched(id)
        /\ \A id \in PromptIds :
              OperationResolvesFor(id) =>
                  /\ StatusIn(generatedImages', id) \in { "done", "error" }
                  /\ OthersUntouched(id) ]_vars

C12_Witness ==
    /\ hgPc = "running"
    /\ queue /= <<>>
    /\ CardStatus("prompt2") = "error"
    /\ \A id \in PromptIds \ { "prompt2" } : CardStatus(id) = "pending"
    /\ \E w \in InFlight : workers[w].item.id = "prompt1"
    /\ \E w \in InFlight : workers[w].item.id = "prompt3"

\* The batch has ended: every job has left 'pending', the three workers have
\* finished, Promise.all has resolved and isLoading is false.
BatchEnded ==
    /\ hgPc = "done"
    /\ ~isLoading
    /\ AllFinished(workers)
    /\ queue = <<>>
    /\ \A id \in PromptIds : CardStatus(id) \in { "done", "error" }

\* C13: under FairScheduling every batch handleGenerate starts ends with every
\* job 'done' or 'error', the three workers finished and isLoading false; and
\* an invocation of callImageModelWithRetry, which every operation of a job
\* awaits, returns or throws.  Checked under SpecTerminates.
C13_EveryBatchTerminates ==
    /\ (hgPc = "resizing") ~> BatchEnded
    /\ (rPc \in { "awaiting", "backoff" }) ~> Terminated

C13_Witness ==
    /\ BatchEnded
    /\ CardStatus("prompt1") = "error"
    /\ CardStatus("prompt4") = "error"
    /\ CardStatus("prompt5") = "done"
    /\ rPc = "thrown"
    /\ calls = 3

(***************************************************************************)
(* Properties of processGeminiResponse, checked under SpecResolver.        *)
(***************************************************************************)
\* `sub` occurs in `text` as it stands.
ContainsVerbatim(text, sub) ==
    \E i \in 0..(Len(text) - Len(sub)) : SubSeq(text, i + 1, i + Len(sub)) = sub

\* The content parts processGeminiResponse scans: those of the first
\* candidate.
ScannedParts ==
    IF Len(givenResponse.candidates) = 0 THEN <<>>
    ELSE givenResponse.candidates[1].parts

\* C14: when some scanned part carries inline image data, the value returned
\* is data:<mimeType>;base64,<data> of the first such part, whatever text parts
\* come before it and whatever image parts come after it.
C14_FirstImagePartReturned ==
    resolved /= NotResolved =>
        \A i \in 1..Len(ScannedParts) :
            ( /\ ScannedParts[i].hasInlineData
              /\ \A j \in 1..(i - 1) : ~ScannedParts[j].hasInlineData )
            => /\ resolved.kind = "value"
               /\ resolved.error = NoError
               /\ resolved.url = <<"data:">> \o ScannedParts[i].mimeType
                                 \o <<";base64,">> \o ScannedParts[i].data

C14_Witness ==
    /\ resolved.kind = "value"
    /\ Len(ScannedParts) = 3
    /\ ~ScannedParts[1].hasInlineData
    /\ ScannedParts[2] = ImagePart(<<"image/", "jpeg">>, <<"SECOND">>)
    /\ ScannedParts[3] = ImagePart(<<"image/", "png">>, <<"RESULT">>)
    /\ resolved.url = <<"data:", "image/", "jpeg", ";base64,", "SECOND">>

\* C15: when no scanned part carries inline image data nothing is returned:
\* an Error is thrown whose message holds response.text as it stands, or
\* 'No text response received.' when response.text is undefined or empty.
C15_NoImageThrowsWithText ==
    ( /\ resolved /= NotResolved
      /\ \A i \in 1..Len(ScannedParts) : ~ScannedParts[i].hasInlineData )
    => /\ resolved.kind = "error"
       /\ resolved.url = NoImage
       /\ resolved.error.isError
       /\ LET said == IF givenResponse.text.defined /\ givenResponse.text.text /= <<>>
                        THEN givenResponse.text.text
                        ELSE <<"No text response received.">>
          IN  /\ ContainsVerbatim(resolved.error.message, said)
              /\ resolved.error.message =
                     <<"The AI model responded with text instead of an image: ", "\"">>
                     \o said \o <<"\"">>

C15_Witness ==
    /\ resolved.kind = "error"
    /\ givenResponse.text = Undefined
    /\ Len(ScannedParts) = 1
    /\ ~ScannedParts[1].hasInlineData
    /\ Includes(resolved.error.message, "No text response received.")

(***************************************************************************)
(* Properties of the transformation operations.                            *)
(***************************************************************************)
OpTerminal == opPc \in { "succeeded", "failed" }

\* Succeeded holds a data URL and no error, Failed an Error with a message and
\* no image, and before either nothing is held; at an outcome no call of
\* generateContent is awaited and no retry timer is pending.
ExactlyOneOutcome ==
    /\ ~OpTerminal => opImage = NoImage /\ opError = NoError
    /\ opPc = "succeeded" =>
          /\ opImage /= NoImage
          /\ opImage[1] = "data:"
          /\ Includes(opImage, ";base64,")
          /\ opError = NoError
    /\ opPc = "failed" =>
          /\ opImage = NoImage
          /\ opError /= NoError
          /\ opError.isError
          /\ opError.message /= <<>>
    /\ OpTerminal => rPc \in { "idle", "returned", "thrown" } /\ timer = 0

\* After an outcome: no call, no retry, no change of the outcome.
OutcomeIsFinal ==
    OpTerminal =>
        /\ UNCHANGED <<calls, attempt, timer, waits, rPc, outcome>>
        /\ UNCHANGED <<opPc, opImage, opError, request>>

\* C16: an invocation of a transformation operation ends, and ends Succeeded
\* with one data URL or Failed with an error message, never with both and
\* never with neither; after that it makes no call of generateContent, no
\* retry and no state change.  Checked under SpecOperationFair.
C16_ExactlyOneTerminalOutcome ==
    /\ []ExactlyOneOutcome
    /\ [][OutcomeIsFinal]_vars
    /\ (opPc /= "idle") ~> OpTerminal

C16_Witness ==
    /\ opPc = "succeeded"
    /\ opName = "generateStyledImage"
    /\ Len(opImages) = 2
    /\ calls = 3
    /\ opImage = <<"data:", "image/", "png", ";base64,", "RESULT">>

\* An argument of the invocation fails validation: an image string is not of
\* the form data:image/<word>;base64,<payload>, or generateStyledImage is
\* given no image.
FailsValidation ==
    \/ opName = "generateStyledImage" /\ opImages = <<>>
    \/ \E i \in 1..Len(opImages) : ~MatchDataUrl(opImages[i]).matched

\* The error is the function's own failure message around a cause.
IsWrapped(error) ==
    /\ Len(error.message) >= 2
    /\ error.message[1] = FailureSentence(opName)
    /\ error.message[2] = " Details: "

\* C17: an invocation whose input fails validation calls generateContent zero
\* times and fails with an error that is not the function's transport or
\* resolution failure message.
C17_InvalidInputFailsBeforeNetwork ==
    opPc /= "idle" /\ FailsValidation =>
        /\ calls = 0
        /\ request = NoRequest
        /\ OpTerminal => opPc = "failed" /\ ~IsWrapped(opError)

\* The message of what callImageModelWithRetry threw: that of an Error, the
\* JSON of any other value.
ThrownDetail ==
    IF outcome.value.isError THEN outcome.value.message ELSE outcome.value.json

\* The response callImageModelWithRetry returned has no inline image among
\* the parts of its first candidate, so processGeminiResponse throws.
ResolverThrows ==
    /\ outcome.kind = "response"
    /\ \/ Len(outcome.value.candidates) = 0
       \/ \A i \in 1..Len(outcome.value.candidates[1].parts) :
              ~outcome.value.candidates[1].parts[i].hasInlineData

\* C18: what callImageModelWithRetry or processGeminiResponse throws inside a
\* transformation operation fails the operation with an Error whose message is
\* the operation's failure sentence, ' Details: ', and the message of what was
\* thrown as it stands; such an invocation never succeeds.
C18_FailuresRethrownWithDetails ==
    /\ OpTerminal /\ rPc = "thrown" =>
          /\ opPc = "failed"
          /\ opError.isError
          /\ opError.message = <<FailureSentence(opName), " Details: ">> \o ThrownDetail
    /\ OpTerminal /\ rPc = "returned" /\ ResolverThrows =>
          /\ opPc = "failed"
          /\ opError.isError
          /\ Len(opError.message) >= 3
          /\ SubSeq(opError.message, 1, 3) =
                <<FailureSentence(opName), " Details: ",
                  "The AI model responded with text instead of an image: ">>
          /\ ContainsVerbatim(opError.message, outcome.value.text.text)
    /\ opPc = "succeeded" => rPc = "returned" /\ ~ResolverThrows
    /\ opPc = "failed" /\ opName = "extractOutfitFromImage" /\ rPc /= "idle" =>
          opError.message[1] = "The AI model failed to extract the outfit."
    /\ opPc = "failed" /\ opName \in { "generateStyledImage", "fillMaskedImage" }
       /\ rPc /= "idle" =>
          opError.message[1] = "The AI model failed to generate an image."

C18_Witness ==
    /\ opPc = "failed"
    /\ opName = "extractOutfitFromImage"
    /\ rPc = "thrown"
    /\ calls = 3
    /\ ~outcome.value.isError
    /\ opError.message =
          <<"The AI model failed to extract the outfit.", " Details: ", "Failed to fetch">>

\* C19: generatePhotoBoothImage invoked with a count outside {4, 6, 8, 9, 12}
\* is rejected: it builds no parts and calls generateContent zero times.
C19_UnsupportedCountRejected ==
    ( /\ opName = "generatePhotoBoothImage"
      /\ opCount \notin { 4, 6, 8, 9, 12 }
      /\ opPc /= "idle" )
    => /\ opPc = "failed"
       /\ request = NoRequest
       /\ calls = 0

\* C20: removeBackgroundFromImageAtPoint draws the marker before it calls
\* generateContent, and what it sends is the marked image; when the image
\* cannot be loaded, or the canvas gives no 2d context, it fails with the
\* error of drawMarkerOnImage itself, which is not its 'failed to remove the
\* background' message, and calls generateContent zero times.
C20_MarkerFailsBeforeNetwork ==
    opName = "removeBackgroundFromImageAtPoint" =>
        /\ opPc = "marking" => calls = 0 /\ rPc = "idle" /\ request = NoRequest
        /\ calls >= 1 =>
              /\ marker = "drawn"
              /\ request[1] = ImagePart(<<"image/", "png">>, <<"MARKED">>)
        /\ marker \in { "loadFailed", "noContext" } =>
              /\ opPc = "failed"
              /\ calls = 0
              /\ request = NoRequest
              /\ opError.isError
              /\ opError.message =
                    IF marker = "loadFailed"
                      THEN <<"Failed to load image for drawing marker.">>
                      ELSE <<"Could not get canvas context">>
              /\ ~Includes(opError.message, "The AI model failed to remove the background.")
              /\ ~Includes(opError.message, " Details: ")

C20_Witness ==
    /\ opName = "removeBackgroundFromImageAtPoint"
    /\ opImages = << PngUrl >>
    /\ marker = "noContext"
    /\ opPc = "failed"
    /\ calls = 0

\* The image part expected for a well-formed data URL of five tokens
\* data: image/ <subtype> ;base64, <payload>.
PartOfWellFormed(url) == ImagePart(<<url[2], url[3]>>, <<url[5]>>)

\* The last element of the request is a text part.
EndsWithText ==
    /\ ~request[Len(request)].hasInlineData
    /\ request[Len(request)].text /= <<>>

\* C21: the request carries the image parts in the order of the arguments and
\* the text part after them: swapFacesInImage(A, B) sends [A, B, text],
\* generateStyledImage(prompt, [u1..un]) sends [u1, .., un, text], and the list
\* handleAnimate passes is [character, pose reference].
C21_ImagePartsInRoleOrder ==
    /\ request /= NoRequest /\ opName = "swapFacesInImage" =>
          /\ Len(request) = 3
          /\ request[1] = PartOfWellFormed(opImages[1])
          /\ request[2] = PartOfWellFormed(opImages[2])
          /\ EndsWithText
    /\ request /= NoRequest /\ opName = "generateStyledImage" =>
          /\ Len(request) = Len(opImages) + 1
          /\ \A i \in 1..Len(opImages) : request[i] = PartOfWellFormed(opImages[i])
          /\ EndsWithText
    /\ ( /\ request /= NoRequest
         /\ opName = "generateStyledImage"
         /\ opImages = handleAnimateImages(PngUrl, JpegUrl) )
       => /\ request[1] = ImagePart(<<"image/", "png">>, <<"iVBORw0KGgo">>)
          /\ request[2] = ImagePart(<<"image/", "jpeg">>, <<"/9j/4AAQSkZJRg">>)
          /\ ~request[3].hasInlineData

C21_Witness ==
    /\ opName = "swapFacesInImage"
    /\ opImages = <<JpegUrl, PngUrl>>
    /\ opPc = "requesting"
    /\ Len(request) = 3
    /\ request[1].mimeType = <<"image/", "jpeg">>
    /\ request[2].mimeType = <<"image/", "png">>

\* Instructions that are present and have a character that is not whitespace.
PresentAfterTrim(instructions) ==
    /\ instructions.defined
    /\ \E i \in 1..Len(instructions.text) :
          instructions.text[i] \notin {" ", "\n", "\t"}

\* The text of the request's text part.
TextSent == request[Len(request)].text

\* C22: for the five functions that accept additional instructions, the text
\* sent is the template followed by the REGENERATION INSTRUCTIONS block and the
\* instructions exactly when the instructions are present and non-empty after
\* trimming; for absent, empty or whitespace-only instructions it is the
\* template alone.
C22_RegenerationBlockIffInstructions ==
    (request /= NoRequest /\ TakesInstructions(opName)) =>
        /\ PresentAfterTrim(opInstructions) =>
              TextSent = PromptText(opName, opCount)
                            \o <<"\n\n**REGENERATION INSTRUCTIONS:**\n">>
                            \o opInstructions.text
        /\ ~PresentAfterTrim(opInstructions) =>
              TextSent = PromptText(opName, opCount)

C22_Witness ==
    /\ opName = "extractOutfitFromImage"
    /\ opInstructions = Str(<<" ", "\n">>)
    /\ request /= NoRequest
    /\ TextSent = PromptText("extractOutfitFromImage", opCount)

\* A request that carries the block with the instructions as given.
C22_WitnessWithBlock ==
    /\ opName = "generateCloneEffectImage"
    /\ opInstructions = Str(<<" ", "make it warmer">>)
    /\ request /= NoRequest
    /\ Len(TextSent) = Len(PromptText("generateCloneEffectImage", opCount)) + 3

\* A parts list made of one or more image parts and then one text part.
ImagesThenOneText(parts) ==
    /\ Len(parts) >= 2
    /\ \A i \in 1..(Len(parts) - 1) : parts[i].hasInlineData
    /\ ~parts[Len(parts)].hasInlineData

\* C23: every parts list a transformation function hands to
\* callImageModelWithRetry is one or more image parts followed by exactly one
\* text part, and every generateContent call of the invocation, the first and
\* each retry, is sent that same list.
C23_ImagesThenTextSameOnRetry ==
    opPc /= "idle" =>
        /\ Len(sent) = calls
        /\ \A i \in 1..Len(sent) :
              /\ ImagesThenOneText(sent[i])
              /\ sent[i] = sent[1]
        /\ request /= NoRequest => ImagesThenOneText(request)

C23_Witness ==
    /\ opName = "generateStyledImage"
    /\ Len(opImages) = 2
    /\ Len(sent) = maxRetries
    /\ sent[3] = sent[1]
    /\ Len(sent[3]) = 3

\* The image the response of this behaviour carries.
GivenImage == givenResponse.candidates[1].parts[1]

\* A valid (mediaType, payload): an image type of a supported family and
\* base64 text without line breaks.
ValidEncodedImage(part) ==
    /\ part.mimeType \in { <<"image/", family>> : family \in { "png", "jpeg", "webp" } }
    /\ \A i \in 1..Len(part.data) : part.data[i] /= "\n"

\* The errors by which a function rejects the format of an image argument.
FormatErrors == { InvalidFormat, InvalidSource, InvalidFace }

\* C24: for a valid (mediaType, payload) the string the resolver returns,
\* data:<mediaType>;base64,<payload>, decodes to exactly (mediaType, payload),
\* and every function given that string accepts it: none throws a format
\* error, and each function that sends its argument sends the same
\* (mediaType, payload) in every image part.
C24_EncodeDecodeRoundTrip ==
    (givenResponse /= NoResponse /\ resolved.kind = "value"
        /\ ValidEncodedImage(GivenImage)) =>
        /\ MatchDataUrl(resolved.url).matched
        /\ MatchDataUrl(resolved.url).mimeType = GivenImage.mimeType
        /\ MatchDataUrl(resolved.url).data = GivenImage.data
        /\ opError \notin FormatErrors
        /\ (request /= NoRequest /\ opName /= "removeBackgroundFromImageAtPoint") =>
              \A i \in 1..Len(opImages) : request[i] = GivenImage

C24_Witness ==
    /\ givenResponse = ResponseWith(<<"image/", "webp">>, <<"AAAA", "+", "/", "==">>)
    /\ opName = "swapFacesInImage"
    /\ opPc = "requesting"
    /\ request[1] = GivenImage
    /\ request[2] = GivenImage

\* Outside the valid pairs the string is rejected: an image type with a
\* suffix does not decode.
C24_SuffixedTypeRejected ==
    /\ givenResponse = ResponseWith(<<"image/", "svg", "+", "xml">>, <<"RESULT">>)
    /\ opName = "extractOutfitFromImage"
    /\ opError = InvalidFormat

\* C25: when API_KEY is unset the module never loads: its top-level code
\* throws, no exported function is ever invoked and no generateContent call is
\* ever made.
C25_MissingKeyFatalAtStartup ==
    ~Truthy(apiKey) =>
        /\ modulePc \in { "unloaded", "failed" }
        /\ opPc = "idle"
        /\ rPc = "idle"
        /\ calls = 0
        /\ sent = <<>>

C25_Witness ==
    /\ apiKey = Undefined
    /\ modulePc = "failed"
    /\ calls = 0

\* With the credential set the module loads and a function makes a call.
C25_WitnessLoaded ==
    /\ Truthy(apiKey)
    /\ modulePc = "loaded"
    /\ calls = 1

\* The prompt ids of the batch handleGenerate is running or has run.
BatchIds == { getPrompts(hgGender)[i].id : i \in 1..Len(getPrompts(hgGender)) }

QueuedIds == { queue[i].id : i \in 1..Len(queue) }

\* C26: in a batch every prompt item is shifted off the shared queue by at
\* most one worker, an item is either still queued or was taken exactly once
\* (none is skipped), no two workers run the operation of the same item, and
\* when the batch has ended every one of the N items was taken exactly once.
C26_EachJobTakenExactlyOnce ==
    hgPc \in { "running", "done" } =>
        /\ \A id \in PromptIds : takers[id] <= 1
        /\ \A id \in BatchIds : (takers[id] = 1) <=> (id \notin QueuedIds)
        /\ \A i, j \in 1..Len(queue) : queue[i].id = queue[j].id => i = j
        /\ \A id \in BatchIds : Cardinality(TakenBy(workers, id)) <= takers[id]
        /\ hgPc = "done" => \A id \in BatchIds : takers[id] = 1

\* A batch of five jobs that has ended, each job taken once.
C26_Witness ==
    /\ hgPc = "done"
    /\ Cardinality(BatchIds) = 5
    /\ \A id \in BatchIds : takers[id] = 1 /\ CardStatus(id) \in { "done", "error" }

\* A state in the middle of a batch: three jobs in flight, one queued.
C26_WitnessRunning ==
    /\ hgPc = "running"
    /\ Len(queue) = 1
    /\ Cardinality({ w \in DOMAIN workers : workers[w].state = "awaiting" }) = 3
    /\ Cardinality({ id \in BatchIds : takers[id] = 1 }) = 4

\* A job of the batch is still queued or its operation is in flight.
BatchHasOpenJob ==
    \/ hgPc = "resizing"
    \/ queue /= <<>>
    \/ \E w \in DOMAIN workers : workers[w].state = "awaiting"

\* A step that starts handleGenerate.
HandleGenerateStarts == invocation' = invocation + 1

\* C27: isLoading is true from the start of a batch for as long as one of its
\* jobs is queued or in flight, whatever the user does meanwhile (start over,
\* remove the image, upload again, switch gender); no step sets it to false
\* while a job is open, and handleGenerate starts only when no batch is
\* running.
C27_LoadingUntilBatchComplete ==
    /\ [](BatchHasOpenJob => isLoading)
    /\ [][ (isLoading /\ ~isLoading') => ~BatchHasOpenJob' ]_vars
    /\ [][ HandleGenerateStarts => (~BatchHasOpenJob /\ ~isLoading /\ isLoading') ]_vars

\* The generate button is on screen with an image uploaded while the batch
\* started before is still running.
C27_Witness ==
    /\ view = "config"
    /\ uploadedImage /= None
    /\ hgPc = "running"
    /\ \E w \in DOMAIN workers : workers[w].state = "awaiting"
    /\ isLoading

\* A second batch runs after the first one has ended.
C27_WitnessSecondBatch ==
    /\ invocation = 2
    /\ hgPc = "running"
    /\ isLoading

\* callImageModelWithRetry has returned a response that carries no image.
ReturnedWithoutImage ==
    /\ rPc = "returned"
    /\ outcome.kind = "response"
    /\ \A i \in 1..Len(FirstCandidateParts(outcome.value)) :
          ~FirstCandidateParts(outcome.value)[i].hasInlineData

\* C28: once callImageModelWithRetry has returned a response, the function
\* makes no further generateContent call; a response without an image fails
\* the invocation after exactly the calls made so far, also when the model's
\* text contains INTERNAL or "code":500.
C28_ImagelessResponseNotRetried ==
    /\ [][ rPc = "returned" => (rPc' = "returned" /\ calls' = calls /\ sent' = sent) ]_vars
    /\ [][ (ReturnedWithoutImage /\ opPc = "requesting" /\ opPc' /= opPc)
              => (opPc' = "failed" /\ calls' = outcome.call) ]_vars
    /\ []( (outcome.kind = "response" /\ opPc \in { "succeeded", "failed" })
              => calls = outcome.call )

C28_Witness ==
    /\ opPc = "failed"
    /\ outcome.kind = "response"
    /\ outcome.value = InternalTextResponse
    /\ IsInternalError(opError)
    /\ calls = 1

\* C29: in the TimeMachine tool the stored result and the stored error are
\* never both present.
C29_ResultAndErrorNeverBoth ==
    ~(tmGeneratedImage /= None /\ tmError /= None)

\* C30: every 'done' or 'error' entry of generatedImages comes from an
\* operation on the currently uploaded image: after handleStartOver or a new
\* upload has cleared the map, no operation started before that records a
\* result, so an entry is settled only while an image is uploaded, and a
\* 'done' entry holds the portrait of that image.
C30_NoResultFromBeforeReset ==
    \A id \in DOMAIN generatedImages :
        generatedImages[id].status \in { "done", "error" } =>
            /\ uploadedImage /= None
            /\ generatedImages[id].status = "done" =>
                  generatedImages[id].url.image
                      = resizeImageToAspectRatio(uploadedImage, "9:16")

====
